---- MODULE Spec2Model ----
(***************************************************************************)
(* Model of the audio preview controller of example/src/App.tsx and the    *)
(* combiner proxy of example/src/worker.ts.                                *)
(*                                                                         *)
(* A mixed result (the value a combine call resolves to) is identified by  *)
(* the number of the combine call that produced it (1, 2, ...); 0 is null. *)
(* A blob URL is identified by the order in which URL.createObjectURL made *)
(* it (1, 2, ...); 0 is the empty src of a media element.                  *)
(***************************************************************************)
EXTENDS Integers, Sequences, FiniteSets, TLC

\* ------------------------------------------------------------------ bounds
MaxUploads == 1
MaxFiles == 2
MaxCombines == 3
MaxTime == 1
MaxBody == 4

\* ------------------------------------------------------- program constants
DefaultVolume == 100
SliderMin == 0
SliderMax == 100

Null == 0
NoSrc == 0

\* The slider positions the model tries (a sample of SliderMin..SliderMax).
Volumes == {SliderMin, SliderMax}

VARIABLES
  files,            \* React state `files`: the Track list
  audioCombinerRef, \* audioCombinerRef.current: a session, or Null
  sessions,         \* number of combiners created in the worker
  freed,            \* sessions on which free() reached the engine, in call order
  started,          \* number of handleFileChange invocations that got past line 130
  uploads,          \* handleFileChange invocations suspended at an await
  issued,           \* issued[g]: which handler issued combine call g
  inflight,         \* combine calls not yet settled: [gen, session, volumes, origin]
  isSwapping,       \* isSwappingRef.current
  pendingUpdate,    \* pendingUpdateRef.current: a result, or Null
  loaderSrc,        \* loaderAudio.src
  loaderState,      \* what the hidden loader element is doing
  listeners,        \* canplaythrough listeners on the loader, by captured newUrl
  mainSrc,          \* mainAudio.src
  mainPaused,       \* mainAudio.paused
  mainTime,         \* mainAudio.currentTime, in 0..MaxTime
  playResult,       \* how mainAudio.play() of the latest handleReady ended
  blobs,            \* blobs[u]: the result wrapped by blob URL u
  revoked,          \* blob URLs passed to URL.revokeObjectURL, in call order
  liveHistory,      \* history: blob URLs bound to mainAudio.src, in order
  presented,        \* history: results passed to updateAudioSource by the orchestrator
  dropped,          \* history: results overwritten in the pending slot
  readyEvents,      \* history: number of canplaythrough events of the loader
  engineErrors,     \* history: combine calls the engine answered without bytes
  inputFile,        \* the File handed to getAudioDuration: [head, size]
  estimate          \* what getAudioDuration made of it

orchVars == <<files, audioCombinerRef, sessions, freed, started, uploads, issued,
              inflight>>
playVars == <<mainPaused, mainTime, playResult>>
schedVars == <<isSwapping, pendingUpdate, loaderSrc, loaderState, listeners,
               mainSrc, blobs, revoked, liveHistory, playVars>>
histVars == <<presented, dropped, readyEvents, engineErrors>>
estVars == <<inputFile, estimate>>
vars == <<orchVars, schedVars, histVars, estVars>>

Range(s) == {s[i] : i \in 1..Len(s)}
Last(s) == s[Len(s)]
Count(s, x) == Cardinality({i \in 1..Len(s) : s[i] = x})

\* ------------------------------------------------------------ the scheduler
\* The refs and media elements updateAudioSource and handleReady work on.
Sched ==
  [isSwapping |-> isSwapping, pendingUpdate |-> pendingUpdate,
   loaderSrc |-> loaderSrc, loaderState |-> loaderState,
   listeners |-> listeners, mainSrc |-> mainSrc, blobs |-> blobs,
   revoked |-> revoked, liveHistory |-> liveHistory,
   mainPaused |-> mainPaused, mainTime |-> mainTime, playResult |-> playResult,
   playAllowed |-> TRUE]

\* The scheduler state s, computed once, becomes the next state.
SetSched(s) ==
  \E t \in {s} :
    /\ isSwapping' = t.isSwapping
    /\ pendingUpdate' = t.pendingUpdate
    /\ loaderSrc' = t.loaderSrc
    /\ loaderState' = t.loaderState
    /\ listeners' = t.listeners
    /\ mainSrc' = t.mainSrc
    /\ blobs' = t.blobs
    /\ revoked' = t.revoked
    /\ liveHistory' = t.liveHistory
    /\ mainPaused' = t.mainPaused
    /\ mainTime' = t.mainTime
    /\ playResult' = t.playResult

\* updateAudioSource without the busy check of lines 63-66.
updateAudioSource_NoBusyCheck(s, file) ==
  LET newUrl == Len(s.blobs) + 1
  IN  [s EXCEPT !.isSwapping = TRUE,
                !.blobs = Append(@, file),
                !.loaderSrc = newUrl,
                !.loaderState = "loading",
                !.listeners = Append(@, newUrl)]

\* updateAudioSource keeping the first queued file instead of the latest.
updateAudioSource_KeepFirst(s, file) ==
  IF s.isSwapping
  THEN [s EXCEPT !.pendingUpdate = IF @ = Null THEN file ELSE @]
  ELSE updateAudioSource_NoBusyCheck(s, file)

\* updateAudioSource(file): queue the file when a swap is running, else wrap
\* it in a blob URL, load it into the hidden loader and register handleReady.
updateAudioSource(s, file) ==
  IF s.isSwapping
  THEN [s EXCEPT !.pendingUpdate = file]
  ELSE LET newUrl == Len(s.blobs) + 1
       IN  [s EXCEPT !.isSwapping = TRUE,
                     !.blobs = Append(@, file),
                     !.loaderSrc = newUrl,
                     !.loaderState = "loading",
                     !.listeners = Append(@, newUrl)]

\* loaderAudio.removeEventListener("canplaythrough", handleReady)
removeEventListener(ls, newUrl) == SelectSeq(ls, LAMBDA u : u # newUrl)

\* mainAudio.load(): the element drops its playback state.
mediaLoad(s) == [s EXCEPT !.mainPaused = TRUE, !.mainTime = 0]

\* mainAudio.play().catch(...): playback starts, or the device refuses, the
\* promise rejects and the element stays paused; the rejection is logged.
mediaPlay(s) ==
  IF s.playAllowed
  THEN [s EXCEPT !.mainPaused = FALSE, !.playResult = "started"]
  ELSE [s EXCEPT !.playResult = "refused"]

\* Steps 3-4 of handleReady: bind newUrl to the visible player, keeping its
\* position and play state.
bindLive(s, newUrl) ==
  LET currentTime == s.mainTime
      isPlaying == ~s.mainPaused
      bound == [s EXCEPT !.revoked = IF s.mainSrc # NoSrc
                                     THEN Append(@, s.mainSrc) ELSE @,
                         !.mainSrc = newUrl,
                         !.liveHistory = Append(@, newUrl),
                         !.playResult = "none"]
      restored == [mediaLoad(bound) EXCEPT !.mainTime = currentTime]
  IN  IF isPlaying THEN mediaPlay(restored) ELSE restored

\* swapLive that binds the new URL without putting the position back.
swapLive_NoTimeRestore(s, newUrl) ==
  [bindLive(s, newUrl) EXCEPT !.mainTime = 0,
                              !.isSwapping = FALSE,
                              !.listeners = removeEventListener(@, newUrl)]

\* The swap of handleReady (steps 3-5 up to the pending check).
swapLive(s, newUrl) ==
  [bindLive(s, newUrl) EXCEPT !.isSwapping = FALSE,
                              !.listeners = removeEventListener(@, newUrl)]

\* handleReady that leaves the previous blob URL alone.
handleReady_NoRevoke(s, newUrl) ==
  LET s1 == [swapLive(s, newUrl) EXCEPT !.revoked = s.revoked]
  IN  IF s1.pendingUpdate # Null
      THEN updateAudioSource([s1 EXCEPT !.pendingUpdate = Null], s1.pendingUpdate)
      ELSE s1

\* handleReady that abandons the finished preload when a newer file waits.
handleReady_SkipStale(s, newUrl) ==
  IF s.pendingUpdate # Null
  THEN updateAudioSource(
         [s EXCEPT !.pendingUpdate = Null, !.isSwapping = FALSE,
                   !.listeners = removeEventListener(@, newUrl)],
         s.pendingUpdate)
  ELSE swapLive(s, newUrl)

\* handleReady that never looks at the pending slot.
handleReady_NoPickup(s, newUrl) == swapLive(s, newUrl)

\* handleReady in which a refused play() ends the handler at line 111.
handleReady_ThrowOnRefusal(s, newUrl) ==
  LET s1 == swapLive(s, newUrl)
  IN  IF s1.playResult = "refused"
      THEN bindLive(s, newUrl)
      ELSE IF s1.pendingUpdate # Null
           THEN updateAudioSource([s1 EXCEPT !.pendingUpdate = Null],
                                  s1.pendingUpdate)
           ELSE s1

\* handleReady: the listener registered by updateAudioSource for newUrl.
handleReady(s, newUrl) ==
  LET s1 == swapLive(s, newUrl)
  IN  IF s1.pendingUpdate # Null
      THEN updateAudioSource([s1 EXCEPT !.pendingUpdate = Null], s1.pendingUpdate)
      ELSE s1

\* Dispatch of one canplaythrough event to the listeners registered when it
\* fires; a listener removed meanwhile is skipped, one added is not called.
RECURSIVE dispatch(_, _)
dispatch(s, ls) ==
  IF ls = <<>> THEN s
  ELSE IF Head(ls) \in Range(s.listeners)
       THEN dispatch(handleReady(s, Head(ls)), Tail(ls))
       ELSE dispatch(s, Tail(ls))

\* ------------------------------------------------------ the duration estimator
\* A File is modelled by its first bytes and its size: every byte after
\* `head` is 0x00, so files of millions of bytes can be written down.
EmptyFile == [head |-> <<>>, size |-> 0]

NoEstimate == [done |-> FALSE, threw |-> FALSE, start |-> 0, sync |-> -1,
               text |-> <<>>]

\* Bitwise | and & of two non-negative integers.
RECURSIVE BitOr(_, _)
BitOr(a, b) ==
  IF a = 0 THEN b
  ELSE IF b = 0 THEN a
  ELSE (IF a % 2 = 1 \/ b % 2 = 1 THEN 1 ELSE 0) + 2 * BitOr(a \div 2, b \div 2)

RECURSIVE BitAnd(_, _)
BitAnd(a, b) ==
  IF a = 0 \/ b = 0 THEN 0
  ELSE (IF a % 2 = 1 /\ b % 2 = 1 THEN 1 ELSE 0) + 2 * BitAnd(a \div 2, b \div 2)

\* view.byteLength and file.size
byteLength(f) == f.size

\* view.getUint8(i) reads inside the buffer; outside it throws a RangeError.
inBounds(f, i) == 0 <= i /\ i < byteLength(f)
getUint8(f, i) == IF i < Len(f.head) THEN f.head[i + 1] ELSE 0

\* Lines 189-193: the tag test, its reads made left to right and stopping at
\* the first byte that differs. "throw" when a read is out of bounds.
tagCheck(f) ==
  IF ~inBounds(f, 0) THEN "throw"
  ELSE IF getUint8(f, 0) # 73 THEN "no"
  ELSE IF ~inBounds(f, 1) THEN "throw"
  ELSE IF getUint8(f, 1) # 68 THEN "no"
  ELSE IF ~inBounds(f, 2) THEN "throw"
  ELSE IF getUint8(f, 2) # 51 THEN "no"
  ELSE "yes"

\* Lines 194-198: the size field of the header.
headerSize(f) ==
  BitOr(BitOr(BitOr(getUint8(f, 6) * 2097152, getUint8(f, 7) * 16384),
              getUint8(f, 8) * 128),
        getUint8(f, 9))

\* Line 210
bitrates == <<0, 32, 40, 48, 56, 64, 80, 96, 112, 128, 160, 192, 224, 256, 320, 0>>

\* Lines 203-217: the scan for the first frame sync, from `offset`. The
\* answer is the offset of the sync, or -1. No byte after `head` is 0xff,
\* so the loop finds nothing from there on.
RECURSIVE scan(_, _)
scan(f, offset) ==
  IF ~(offset < byteLength(f) - 4) THEN -1
  ELSE IF offset >= Len(f.head) THEN -1
  ELSE IF getUint8(f, offset) = 255 /\ BitAnd(getUint8(f, offset + 1), 224) = 224
       THEN offset
       ELSE scan(f, offset + 1)

\* durationSeconds with the kbps taken as 1024 bits per second.
durationSeconds_Kibi(size, bitrate) ==
  IF bitrate > 0 THEN [num |-> size * 8, den |-> bitrate * 1024]
  ELSE [num |-> 0, den |-> 1]

\* Line 213: durationSeconds as the fraction num/den (0 when bitrate is 0).
durationSeconds(size, bitrate) ==
  IF bitrate > 0 THEN [num |-> size * 8, den |-> bitrate * 1000]
  ELSE [num |-> 0, den |-> 1]

\* Number.toString() as a sequence of decimal digits, and padStart(2, "0").
RECURSIVE toString(_)
toString(x) == IF x < 10 THEN <<x>> ELSE Append(toString(x \div 10), x % 10)
padStart2(digits) == IF Len(digits) < 2 THEN <<0>> \o digits ELSE digits

\* Lines 219-228: <<h, m, s>>, each a sequence of digits.
formatDuration(d) ==
  <<padStart2(toString(d.num \div (d.den * 3600))),
    padStart2(toString((d.num % (d.den * 3600)) \div (d.den * 60))),
    padStart2(toString((d.num % (d.den * 60)) \div d.den))>>

\* getAudioDuration(file)
getAudioDuration(f) ==
  LET tag == tagCheck(f)
      thrown == [NoEstimate EXCEPT !.done = TRUE, !.threw = TRUE]
  IN  IF tag = "throw" THEN thrown
      ELSE IF tag = "yes" /\ \E i \in 6..9 : ~inBounds(f, i) THEN thrown
      ELSE LET offset == IF tag = "yes" THEN headerSize(f) + 10 ELSE 0
               sync == scan(f, offset)
               bitrate == IF sync = -1 THEN 0
                          ELSE bitrates[((getUint8(f, sync + 2) \div 16) % 16) + 1]
           IN  [done |-> TRUE, threw |-> FALSE, start |-> offset, sync |-> sync,
                text |-> formatDuration(durationSeconds(byteLength(f), bitrate))]

\* The files the estimator is tried on: nothing, a cut or whole tag header
\* with one of a few size fields, then every byte string over BodyBytes up
\* to MaxBody bytes; the file ends there or zeros follow.
BodyBytes == {0, 16, 144, 224, 255}
RECURSIVE Bodies(_)
Bodies(n) ==
  IF n = 0 THEN {<<>>}
  ELSE Bodies(n - 1) \cup
       {Append(b, x) : b \in {c \in Bodies(n - 1) : Len(c) = n - 1}, x \in BodyBytes}
SizeFields ==
  {<<0, 0, 0, 0>>, <<0, 0, 0, 1>>, <<0, 0, 0, 2>>, <<0, 0, 0, 128>>,
   <<0, 0, 1, 128>>, <<0, 1, 0, 0>>, <<1, 128, 0, 0>>, <<127, 127, 127, 127>>}
Header(sz) == <<73, 68, 51, 3, 0, 0>> \o sz
Prefixes ==
  {<<>>} \cup {Header(sz) : sz \in SizeFields}
         \cup {SubSeq(Header(<<0, 0, 0, 0>>), 1, k) : k \in {1, 2, 3, 6, 9}}
\* The sizes tried for a file that begins with `head`.
Sizes(head) == {Len(head), Len(head) + 5, 10000000, 60000000}

\* ---------------------------------------------------------- the orchestrator
Init ==
  /\ files = <<>>
  /\ audioCombinerRef = Null
  /\ sessions = 0
  /\ freed = <<>>
  /\ started = 0
  /\ uploads = {}
  /\ issued = <<>>
  /\ inflight = {}
  /\ isSwapping = FALSE
  /\ pendingUpdate = Null
  /\ loaderSrc = NoSrc
  /\ loaderState = "empty"
  /\ listeners = <<>>
  /\ mainSrc = NoSrc
  /\ mainPaused = TRUE
  /\ mainTime = 0
  /\ playResult = "none"
  /\ blobs = <<>>
  /\ revoked = <<>>
  /\ liveHistory = <<>>
  /\ presented = <<>>
  /\ dropped = {}
  /\ readyEvents = 0
  /\ engineErrors = {}
  /\ inputFile = EmptyFile
  /\ estimate = NoEstimate

\* The combine call of lines 165 and 179: the proxy's combine is invoked with
\* the volume vector and the caller awaits the answer.
issueCombine(session, volumes, origin) ==
  /\ issued' = Append(issued, origin)
  /\ inflight' = inflight \cup {[gen |-> Len(issued) + 1, session |-> session,
                                 volumes |-> volumes, origin |-> origin]}

\* The <input type="file"> onChange handler up to its first await. The input
\* is displayed only while the Track list is empty (line 242).
HandleFileChange ==
  \E n \in 0..MaxFiles :
    /\ files = <<>>
    /\ started < MaxUploads
    /\ IF n = 0
       THEN UNCHANGED <<started, uploads>>
       ELSE /\ started' = started + 1
            /\ uploads' = uploads \cup {[id |-> started + 1, pc |-> "createCombiner",
                                         n |-> n, session |-> Null]}
    /\ UNCHANGED <<files, audioCombinerRef, sessions, freed, issued, inflight,
                   schedVars, histVars, estVars>>

\* api.createCombiner settles: the worker built a combiner, or the engine
\* rejected the files and the handler ends with the rejection.
CreateCombinerSettled ==
  \E u \in uploads, ok \in BOOLEAN :
    /\ u.pc = "createCombiner"
    /\ IF ok
       THEN /\ sessions' = sessions + 1
            /\ uploads' = (uploads \ {u}) \cup
                            {[u EXCEPT !.pc = "getAudioDuration",
                                       !.session = sessions + 1]}
       ELSE /\ sessions' = sessions
            /\ uploads' = uploads \ {u}
    /\ UNCHANGED <<files, audioCombinerRef, freed, started, issued, inflight,
                   schedVars, histVars, estVars>>

\* The Track list built at lines 148-158 for the files of upload u. The name
\* and the estimated duration of the k-th selected file are written k.
newFiles(u) ==
  [k \in 1..u.n |->
     [id |-> (u.session - 1) * MaxFiles + k, name |-> k, duration |-> k,
      volume |-> DefaultVolume]]

\* The durations settle (lines 148-158); then the handler stores the
\* combiner and the Track list and issues the initial combine (160-165).
\* getAudioDuration rejects when a read falls outside the file's bytes.
DurationsSettled ==
  \E u \in uploads, ok \in BOOLEAN :
    /\ u.pc = "getAudioDuration"
    /\ uploads' = uploads \ {u}
    /\ IF ok
       THEN /\ Len(issued) < MaxCombines
            /\ audioCombinerRef' = u.session
            /\ files' = newFiles(u)
            /\ issueCombine(u.session, [k \in 1..u.n |-> DefaultVolume], "upload")
       ELSE UNCHANGED <<files, audioCombinerRef, issued, inflight>>
    /\ UNCHANGED <<sessions, freed, started, schedVars, histVars, estVars>>

\* What the engine's combine may return for call c: a file with bytes, or a
\* value without the bytes field.
EngineResults(c) ==
  {[bytes |-> c.gen, type |-> "Mpeg"], [error |-> "combine failed"]}

\* The proxy's combine handing on whatever the engine returned.
combine_NoBytesCheck(resultFile) ==
  [resolved |-> TRUE, value |-> resultFile]

\* combine of the proxy (worker.ts): a value without bytes is thrown, so the
\* caller's await rejects; otherwise the caller gets {bytes, type}.
combine(resultFile) ==
  IF "bytes" \notin DOMAIN resultFile
  THEN [resolved |-> FALSE, value |-> resultFile]
  ELSE [resolved |-> TRUE,
        value |-> [bytes |-> resultFile.bytes, type |-> resultFile.type]]

\* A combine call settles, in any order among the outstanding ones. On
\* success the awaiting handler passes the result to updateAudioSource
\* (lines 166, 180); on failure the proxy threw and the handler ends.
CombineSettled ==
  \E c \in inflight :
    \E resultFile \in EngineResults(c) :
      /\ inflight' = inflight \ {c}
      /\ engineErrors' = IF "bytes" \in DOMAIN resultFile
                         THEN engineErrors
                         ELSE engineErrors \cup {c.gen}
      /\ IF combine(resultFile).resolved
         THEN /\ SetSched(updateAudioSource(Sched, c.gen))
              /\ presented' = Append(presented, c.gen)
              /\ dropped' = IF isSwapping /\ pendingUpdate # Null
                            THEN dropped \cup {pendingUpdate}
                            ELSE dropped
         ELSE UNCHANGED <<schedVars, presented, dropped>>
      /\ UNCHANGED <<files, audioCombinerRef, sessions, freed, started, uploads,
                     issued, readyEvents, estVars>>

\* updatedFiles that also puts every other track back to the default volume.
updatedFiles_ResetOthers(fs, id, value) ==
  [j \in 1..Len(fs) |->
     [fs[j] EXCEPT !.volume = IF fs[j].id = id THEN value ELSE DefaultVolume]]

\* Lines 171-173: the Track list with the volume of track `id` replaced.
updatedFiles(fs, id, value) ==
  [j \in 1..Len(fs) |->
     IF fs[j].id = id THEN [fs[j] EXCEPT !.volume = value] ELSE fs[j]]

\* Line 178: the volume vector of a Track list, in list order.
volumeVector(fs) == [j \in 1..Len(fs) |-> fs[j].volume]

\* updateVolume(id, value): the slider of track k moves to v.
UpdateVolume ==
  \E k \in 1..Len(files), v \in Volumes :
    LET updated == updatedFiles(files, files[k].id, v)
    IN  /\ v # files[k].volume
        /\ Len(issued) < MaxCombines
        /\ files' = updated
        /\ IF audioCombinerRef # Null
           THEN issueCombine(audioCombinerRef, volumeVector(updated), "volume")
           ELSE UNCHANGED <<issued, inflight>>
        /\ UNCHANGED <<audioCombinerRef, sessions, freed, started, uploads,
                       schedVars, histVars, estVars>>

\* free() of the combiner proxy: the engine handle is released. No handler
\* of App.tsx calls it, so it is no disjunct of Next.
free(session) ==
  /\ freed' = Append(freed, session)
  /\ UNCHANGED <<files, audioCombinerRef, sessions, started, uploads, issued,
                 inflight, schedVars, histVars, estVars>>

\* reset: the "Discard and Go Back" button, rendered with the Track list.
Reset ==
  /\ files # <<>>
  /\ files' = <<>>
  /\ audioCombinerRef' = Null
  /\ UNCHANGED <<sessions, freed, started, uploads, issued, inflight, schedVars,
               histVars, estVars>>

\* The loader has buffered enough of its source: canplaythrough fires.
CanPlayThrough ==
  /\ loaderState = "loading"
  /\ \E allowed \in BOOLEAN :
       SetSched(dispatch([Sched EXCEPT !.loaderState = "ready",
                                       !.playAllowed = allowed], listeners))
  /\ readyEvents' = readyEvents + 1
  /\ UNCHANGED <<orchVars, presented, dropped, engineErrors, estVars>>

\* The loader cannot decode its source: it fires error, for which no
\* listener is registered, and canplaythrough never fires for this load.
PreloadError ==
  /\ loaderState = "loading"
  /\ loaderState' = "error"
  /\ UNCHANGED <<orchVars, histVars, estVars, isSwapping, pendingUpdate, loaderSrc,
                 listeners, mainSrc, blobs, revoked, liveHistory, playVars>>

Next ==
  \/ HandleFileChange
  \/ CreateCombinerSettled
  \/ DurationsSettled
  \/ CombineSettled
  \/ UpdateVolume
  \/ Reset
  \/ CanPlayThrough
  \/ PreloadError

Spec == Init /\ [][Next]_vars

\* Every preload reports ready: no decode error, and a buffering loader
\* eventually fires canplaythrough.
NextReady ==
  \/ HandleFileChange
  \/ CreateCombinerSettled
  \/ DurationsSettled
  \/ CombineSettled
  \/ UpdateVolume
  \/ Reset
  \/ CanPlayThrough

LiveSpec == Init /\ [][NextReady]_vars /\ WF_vars(CanPlayThrough)

\* The controls of the visible player, shown with the Track list (line 263)
\* and usable once a mix is bound: the user starts or pauses playback, and
\* playback advances the position.
UserPlay ==
  /\ files # <<>>
  /\ mainSrc # NoSrc
  /\ mainPaused
  /\ mainPaused' = FALSE
  /\ UNCHANGED <<orchVars, histVars, estVars, isSwapping, pendingUpdate, loaderSrc,
                 loaderState, listeners, mainSrc, blobs, revoked, liveHistory,
                 mainTime, playResult>>

UserPause ==
  /\ files # <<>>
  /\ ~mainPaused
  /\ mainPaused' = TRUE
  /\ UNCHANGED <<orchVars, histVars, estVars, isSwapping, pendingUpdate, loaderSrc,
                 loaderState, listeners, mainSrc, blobs, revoked, liveHistory,
                 mainTime, playResult>>

PlaybackAdvances ==
  /\ ~mainPaused
  /\ mainTime < MaxTime
  /\ mainTime' = mainTime + 1
  /\ UNCHANGED <<orchVars, histVars, estVars, isSwapping, pendingUpdate, loaderSrc,
                 loaderState, listeners, mainSrc, blobs, revoked, liveHistory,
                 mainPaused, playResult>>

\* Spec and LiveSpec leave the player's controls alone; PlaybackSpec adds them.
NextPlayback ==
  \/ HandleFileChange
  \/ CreateCombinerSettled
  \/ DurationsSettled
  \/ CombineSettled
  \/ UpdateVolume
  \/ Reset
  \/ CanPlayThrough
  \/ PreloadError
  \/ UserPlay
  \/ UserPause
  \/ PlaybackAdvances

PlaybackSpec == Init /\ [][NextPlayback]_vars

\* getAudioDuration is applied to one file (line 153, once per uploaded file).
Estimate ==
  /\ ~estimate.done
  /\ \E p \in Prefixes, b \in Bodies(MaxBody) :
       \E n \in Sizes(p \o b) :
         LET f == [head |-> p \o b, size |-> n]
         IN  /\ inputFile' = f
             /\ estimate' = getAudioDuration(f)
  /\ UNCHANGED <<orchVars, schedVars, histVars>>

DurationSpec == Init /\ [][Estimate]_vars

\* ------------------------------------------------------------------ claims
\* The results made live so far, in order.
liveGens == [i \in 1..Len(liveHistory) |-> blobs[liveHistory[i]]]

\* C1: at most one result is in flight (preloading on the loader with a
\* ready-listener registered), and the live surface's source changes at most
\* once per completed preload, each blob URL being made live at most once.
C1_AtMostOneInFlight ==
  /\ Len(listeners) <= 1
  /\ isSwapping <=> (Len(listeners) = 1)
  /\ isSwapping => listeners = <<loaderSrc>>
  /\ Len(liveHistory) <= readyEvents
  /\ \A u \in Range(liveHistory) : Count(liveHistory, u) = 1

\* A result arrived during a preload that followed a completed swap.
C1_Witness ==
  /\ isSwapping
  /\ pendingUpdate # Null
  /\ Len(liveHistory) >= 1
  /\ Len(listeners) = 1

\* C2: the pending slot holds only the latest result presented during a
\* preload; a queued result that was replaced is never wrapped in a blob URL,
\* never preloaded and never made live.
C2_PendingLastWriteWins ==
  /\ pendingUpdate # Null => pendingUpdate = Last(presented)
  /\ dropped \cap Range(blobs) = {}
  /\ dropped \cap Range(liveGens) = {}
  /\ pendingUpdate \notin dropped

\* A third result has just replaced the queued second one, the first still
\* preloading.
C2_Witness ==
  /\ isSwapping
  /\ Len(presented) = 3
  /\ dropped = {presented[2]}
  /\ pendingUpdate = presented[3]
  /\ Len(blobs) = 1

\* C3: a preload in flight is never cancelled by a later present: the results
\* go live in the order presented (replaced ones left out), the pending one
\* is not preloaded before the in-flight one went live, and an idle scheduler
\* shows the result presented last.
C3_CoalescedSwapOrder ==
  LET inFlight == IF isSwapping THEN <<blobs[loaderSrc]>> ELSE <<>>
      waiting == IF pendingUpdate # Null THEN <<pendingUpdate>> ELSE <<>>
  IN  /\ liveGens \o inFlight \o waiting
           = SelectSeq(presented, LAMBDA g : g \notin dropped)
      /\ pendingUpdate # Null => pendingUpdate \notin Range(blobs)
      /\ (~isSwapping /\ presented # <<>>) => blobs[mainSrc] = Last(presented)

\* Results arrived while the first was preloading (one of them was replaced
\* in the pending slot, which happens only then): two swaps, the first result
\* and then the latest.
C3_Witness ==
  /\ Len(presented) = 3
  /\ dropped = {presented[2]}
  /\ ~isSwapping
  /\ liveGens = <<presented[1], presented[3]>>
  /\ readyEvents = 2

\* C4: a mix for an older volume vector is never made live after a mix for a
\* newer volume vector, whatever the order in which the combine calls settle.
C4_LatestVolumeWins ==
  \A i, j \in 1..Len(liveGens) :
    (i < j /\ issued[liveGens[i]] = "volume" /\ issued[liveGens[j]] = "volume")
      => liveGens[i] < liveGens[j]

\* The scheduler is idle, nothing waits, and the latest result is live.
Settled ==
  /\ ~isSwapping
  /\ pendingUpdate = Null
  /\ presented # <<>> => (mainSrc # NoSrc /\ blobs[mainSrc] = Last(presented))

\* C5: when every started preload reports ready, the scheduler, after any
\* presents, eventually is idle with an empty pending slot and the result
\* presented last on the live surface.
C5_EventuallyLatestLive == []<>Settled

\* Settled on the second of two results that both went live.
C5_Witness ==
  /\ Settled
  /\ Len(presented) = 2
  /\ liveGens = presented

\* C6: after a failed preload the scheduler is idle again, so the next
\* present starts preloading at once instead of being queued.
C6_FailedPreloadReturnsToIdle ==
  [][(loaderState = "error" /\ Len(presented') > Len(presented))
       => (loaderState' = "loading" /\ pendingUpdate' = pendingUpdate)]_vars

\* C7: after N swaps exactly the N-1 previously live blob URLs have been
\* revoked, each once, and the live one has not.
C7_ResourceLifecycle ==
  /\ liveHistory # <<>> =>
       /\ revoked = SubSeq(liveHistory, 1, Len(liveHistory) - 1)
       /\ mainSrc = Last(liveHistory)
  /\ liveHistory = <<>> => (revoked = <<>> /\ mainSrc = NoSrc)
  /\ \A u \in Range(revoked) : Count(revoked, u) = 1
  /\ mainSrc \notin Range(revoked)

\* Three swaps, two blob URLs revoked.
C7_Witness ==
  /\ Len(liveHistory) = 3
  /\ Len(revoked) = 2

\* C8: the session that a new batch replaces or a reset discards is released
\* exactly once.
C8_SessionReleasedOnce ==
  [][(audioCombinerRef # Null /\ audioCombinerRef' # audioCombinerRef)
       => Count(freed', audioCombinerRef) = 1]_vars

\* C9: a reset empties the Track list and leaves no pending result and no
\* blob URL that has not been revoked.
C9_ResetReleasesResources ==
  [][Reset => /\ files' = <<>>
              /\ pendingUpdate' = Null
              /\ \A u \in 1..Len(blobs') : u \in Range(revoked')]_vars

\* C10: when createCombiner or the first combine of an upload fails, the
\* Track list is empty afterwards and nothing was presented.
C10_FailedUploadLeavesEmptyList ==
  [][((\E u \in uploads : u.pc = "createCombiner" /\ uploads' = uploads \ {u})
      \/ (\E c \in inflight : /\ c.origin = "upload"
                              /\ inflight' = inflight \ {c}
                              /\ presented' = presented))
       => (files' = <<>> /\ presented' = presented)]_vars

\* C11: when the engine answers a volume change's combine without bytes, the
\* call fails and nothing is presented: the scheduler, the pending slot and
\* the live resource stay as they were and no further combine is issued.
C11_MixErrorLeavesSurface ==
  [][\A c \in inflight :
       (c.origin = "volume" /\ c.gen \in engineErrors' \ engineErrors)
         => /\ UNCHANGED schedVars
            /\ presented' = presented
            /\ issued' = issued
            /\ inflight' = inflight \ {c}]_vars

\* A volume change's combine failed while an earlier mix is live.
C11_Witness ==
  /\ \E g \in engineErrors : issued[g] = "volume"
  /\ mainSrc # NoSrc
  /\ ~isSwapping

\* A step in which handleReady swapped a result live.
SwapStep == readyEvents' = readyEvents + 1

\* C12 as stated: every swap leaves the position and the play/pause state of
\* the visible player as they were read when the preload completed.
C12_SwapKeepsPlaybackState ==
  [][SwapStep => (mainTime' = mainTime /\ mainPaused' = mainPaused)]_vars

\* C12 as amended: every swap keeps the position; a paused player stays
\* paused and play() is not called; a playing player has play() called and
\* plays on unless the device refuses, and then it is left paused.
C12_SwapKeepsPlaybackUnlessRefused ==
  [][SwapStep =>
       /\ mainTime' = mainTime
       /\ mainPaused => (mainPaused' /\ playResult' = "none")
       /\ ~mainPaused => playResult' \in {"started", "refused"}
       /\ playResult' = "started" => ~mainPaused'
       /\ playResult' = "refused" => mainPaused']_vars

\* A swap happened while the player was playing past the start, and playback
\* went on.
C12_Witness ==
  /\ playResult = "started"
  /\ ~mainPaused
  /\ mainTime >= 1
  /\ Len(liveHistory) >= 2

\* C13: when play() is refused during a swap, the new URL is live all the
\* same, the previous one is revoked, the player is paused, and the scheduler
\* is idle or preloads the pending result.
C13_RefusedResumeIsNotFatal ==
  [][(SwapStep /\ playResult' = "refused") =>
       /\ mainSrc' = loaderSrc
       /\ revoked' = Append(revoked, mainSrc)
       /\ mainPaused'
       /\ IF pendingUpdate = Null
          THEN ~isSwapping' /\ listeners' = <<>>
          ELSE /\ isSwapping'
               /\ pendingUpdate' = Null
               /\ loaderState' = "loading"
               /\ blobs'[loaderSrc'] = pendingUpdate]_vars

\* A refused resume after which the scheduler is idle on the new URL.
C13_Witness ==
  /\ playResult = "refused"
  /\ mainPaused
  /\ ~isSwapping
  /\ revoked # <<>>
  /\ mainSrc = Last(liveHistory)

\* ---- the duration estimator (DurationSpec)
ZeroDuration == <<<<0, 0>>, <<0, 0>>, <<0, 0>>>>
HasTag(f) ==
  Len(f.head) >= 3 /\ f.head[1] = 73 /\ f.head[2] = 68 /\ f.head[3] = 51

\* C14: the estimator never fails: for every buffer, the empty one and the
\* ones cut inside the tag header included, every read is in bounds and a
\* duration string comes back.
C14_EstimatorNeverFails ==
  estimate.done => ~estimate.threw /\ Len(estimate.text) = 3

\* The 28-bit value of the low 7 bits of the bytes at offsets 6..9.
SynchSafe(f) ==
  (getUint8(f, 6) % 128) * 2097152 + (getUint8(f, 7) % 128) * 16384
    + (getUint8(f, 8) % 128) * 128 + (getUint8(f, 9) % 128)

\* C15: for a buffer that starts 0x49 0x44 0x33 (and holds the ten bytes of
\* the header), scanning starts at SynchSafe + 10, bit 7 of each size byte
\* ignored; size bytes 00 00 00 00 start it at 10.
C15_SynchSafeSkip ==
  (estimate.done /\ HasTag(inputFile) /\ byteLength(inputFile) >= 10)
    => /\ ~estimate.threw
       /\ estimate.start = SynchSafe(inputFile) + 10
       /\ (\A i \in 6..9 : getUint8(inputFile, i) = 0) => estimate.start = 10

\* The offsets, from the start of the scan, where a frame sync stands before
\* 4 bytes from the end.
Syncs(f, from) ==
  {i \in from..(Len(f.head) - 1) :
     /\ i < byteLength(f) - 4
     /\ getUint8(f, i) = 255
     /\ getUint8(f, i + 1) \div 32 = 7}
FirstSync(f, from) == CHOOSE i \in Syncs(f, from) : \A j \in Syncs(f, from) : i <= j
HighNibble(f, i) == getUint8(f, i + 2) \div 16

\* C16: the first frame sync alone decides: with no sync before 4 bytes from
\* the end, or a first sync whose bitrate nibble is 0x0 or 0xF, the result is
\* 00:00:00 whatever frames follow.
C16_FirstSyncDecides ==
  estimate.done =>
    LET s == Syncs(inputFile, estimate.start)
    IN  (s = {} \/ HighNibble(inputFile, FirstSync(inputFile, estimate.start)) \in {0, 15})
          => estimate.text = ZeroDuration

\* The bitrate table of the specification, indexed by the nibble.
TableKbps(nibble) ==
  <<0, 32, 40, 48, 56, 64, 80, 96, 112, 128, 160, 192, 224, 256, 320, 0>>[nibble + 1]
TwoDigits(x) == IF x < 100 THEN <<x \div 10, x % 10>> ELSE toString(x)
HHMMSS(seconds) ==
  <<TwoDigits(seconds \div 3600), TwoDigits((seconds % 3600) \div 60),
    TwoDigits(seconds % 60)>>

\* C17: when the scan finds a first frame of valid bitrate b in a file of n
\* bytes, the result is HH:MM:SS of floor(n*8 / (b*1000)) seconds, each field
\* padded to two digits; n = 10000000 and b = 128 give 00:10:25.
C17_DurationArithmetic ==
  (estimate.done /\ ~estimate.threw /\ Syncs(inputFile, estimate.start) # {})
    => LET b == TableKbps(HighNibble(inputFile, FirstSync(inputFile, estimate.start)))
           n == byteLength(inputFile)
       IN  /\ b > 0 => estimate.text = HHMMSS((n * 8) \div (b * 1000))
           /\ (b = 128 /\ n = 10000000)
                => estimate.text = <<<<0, 0>>, <<1, 0>>, <<2, 5>>>>

\* A 10000000-byte file whose first frame says 128 kbps, estimated 00:10:25.
C17_Witness ==
  /\ estimate.done
  /\ byteLength(inputFile) = 10000000
  /\ Syncs(inputFile, estimate.start) # {}
  /\ TableKbps(HighNibble(inputFile, FirstSync(inputFile, estimate.start))) = 128
  /\ estimate.text = <<<<0, 0>>, <<1, 0>>, <<2, 5>>>>

\* ---- the orchestrator's combine calls (Spec)

\* C18: no two combine calls are outstanding on the same session, whatever
\* the volume changes and also while the initial combine is outstanding.
C18_NoOverlappingCombines ==
  \A a, b \in inflight : a.session = b.session => a = b

\* A step that issues the combine call of a volume change.
VolumeStep == issued' = Append(issued, "volume")

\* C19: a volume change of track T to v sets T's volume to v in the step
\* that issues the call, leaves every other track and the order as they
\* were, and passes the whole volume vector of the new list, in list order,
\* on the current session; no completion of a call or a swap touches the list.
C19_VolumeChangeFrame ==
  [][/\ VolumeStep =>
          /\ \E k \in 1..Len(files), v \in Volumes :
               files' = [files EXCEPT ![k].volume = v]
          /\ \E c \in inflight' \ inflight :
               /\ inflight' = inflight \cup {c}
               /\ c.session = audioCombinerRef
               /\ c.volumes = [j \in 1..Len(files') |-> files'[j].volume]
     /\ (inflight' \subseteq inflight /\ inflight' # inflight) => files' = files
     /\ readyEvents' # readyEvents => files' = files]_vars

\* Two tracks both turned down, the second change still outstanding with the
\* vector of both changes.
C19_Witness ==
  /\ Len(files) = 2
  /\ \A j \in 1..2 : files[j].volume = SliderMin /\ files[j].name = j
  /\ \E c \in inflight : c.origin = "volume" /\ c.volumes = <<SliderMin, SliderMin>>

\* C20: a filled pending slot implies a swap in flight, with the handler that
\* will pick it up registered on the loader; an idle scheduler has an empty
\* slot.
C20_PendingImpliesSwapping ==
  pendingUpdate # Null => isSwapping /\ listeners # <<>>

\* A result waiting in the slot behind a preload, after an earlier swap.
C20_Witness ==
  /\ pendingUpdate # Null
  /\ isSwapping
  /\ listeners # <<>>
  /\ liveHistory # <<>>
====
